---- MODULE Spec2Model ----
(***************************************************************************)
(* Model of the COA translation pipeline's control logic:                  *)
(*   - modules/pdf_extractor.py : the extraction backends and the          *)
(*     coordinator extract_text_from_pdf (cascade with quality gates);     *)
(*   - modules/translator.py    : the chunker _chunk_text and the two      *)
(*     translation controllers _translate_plain and _translate_structured; *)
(*   - app.py                   : the session cache of the Streamlit script.*)
(* Python strings are sequences of one-character strings; Python None is   *)
(* the value None below.                                                   *)
(***************************************************************************)
EXTENDS Integers, Sequences, FiniteSets, TLC

VARIABLES
    HAS_FITZ,     \* pdf_extractor.py: module flag, PyMuPDF importable
    HAS_OCR,      \* pdf_extractor.py: module flag, pytesseract + Pillow usable
    pdf,          \* the uploaded file: true page count and which parsers fail on it
    pc,           \* position of extract_text_from_pdf
    text,         \* local `text` of extract_text_from_pdf
    page_count,   \* local `page_count` of extract_text_from_pdf
    result,       \* the returned dict, NoResult before the return
    calls,        \* backends invoked so far, with what each returned
    given,        \* what the libraries gave the backend invoked last
    in_text,      \* argument `text` of _chunk_text
    in_max,       \* argument `max_size` of _chunk_text
    chunks,       \* the returned list of chunks, NoChunks before the call
    cstage,       \* "idle", or "input" before _chunk_text ran and "chunked" after
    rechunks,     \* the chunks of the blank-line join of `chunks`, NoChunks before
    mode,              \* "plain": translate_text was called, "structured":
                       \* translate_text_structured, "idle": neither
    t_text,            \* argument `text` of the translation call
    progress_callback, \* "none": no callback was passed, "given": one was
    t_pc,              \* position of the translation call
    fallback,          \* _translate_plain is running inside the JSONDecodeError handler
    t_chunks,          \* local `chunks` of _translate_plain
    t_i,               \* loop counter of _translate_plain, i + 1 of the code
    translated_parts,  \* local `translated_parts` of _translate_plain
    raw,               \* local `raw` of _translate_structured, as lines
    events,            \* callback invocations, requests and responses, in order
    t_result,          \* the returned dict, NoTResult before the return
    uploaded_file,     \* app.py: the file in the uploader, NoFile when there is none
    api_key,           \* app.py: the sidebar holds an API key
    session_state,     \* app.py: st.session_state
    shown              \* app.py: what the last script run put on the page

vars == <<HAS_FITZ, HAS_OCR, pdf, pc, text, page_count, result, calls, given,
          in_text, in_max, chunks, cstage, rechunks,
          mode, t_text, progress_callback, t_pc, fallback, t_chunks, t_i,
          translated_parts, raw, events, t_result,
          uploaded_file, api_key, session_state, shown>>

extractVars == <<HAS_FITZ, HAS_OCR, pdf, pc, text, page_count, result, calls, given>>
chunkVars == <<in_text, in_max, chunks, cstage, rechunks>>
translateVars == <<mode, t_text, progress_callback, t_pc, fallback, t_chunks, t_i,
                   translated_parts, raw, events, t_result>>
appVars == <<uploaded_file, api_key, session_state, shown>>

-----------------------------------------------------------------------------
(* Bounds of the model *)

MaxPages == 3      \* pages of an uploaded PDF
MaxLen == 9        \* characters of a text handed to _chunk_text
MaxSize == 6       \* largest max_size handed to _chunk_text
MaxReLen == 8      \* characters of a text that is chunked and then re-chunked

-----------------------------------------------------------------------------
(* Python values and string primitives *)

None == <<"<None>">>
NoResult == [method |-> "<no result>"]
NoChunks == <<<<"<no chunks>">>>>
NoTResult == [success |-> "<no result>"]
NoFile == [name |-> "", bytes |-> -1]

\* a key that st.session_state does not hold
Missing == [of |-> -1, success |-> FALSE]

\* nothing on the page
Blank == [extraction |-> -1, translation |-> -1, doc |-> -1, button |-> FALSE]

Whitespace == {" ", "\n", "\t"}
DigitChars == <<"0", "1", "2", "3", "4", "5", "6", "7", "8", "9">>
AlnumChars == {"a", "b", "c", "A", "Z"} \cup {DigitChars[i] : i \in 1..10}

NL == <<"\n">>
NL2 == <<"\n", "\n">>

Rep(c, n) == [i \in 1..n |-> c]

RECURSIVE LStrip(_)
LStrip(s) ==
    IF s # <<>> /\ Head(s) \in Whitespace THEN LStrip(Tail(s)) ELSE s

RECURSIVE RStrip(_)
RStrip(s) ==
    IF s # <<>> /\ s[Len(s)] \in Whitespace
    THEN RStrip(SubSeq(s, 1, Len(s) - 1))
    ELSE s

\* str.strip()
Strip(s) == RStrip(LStrip(s))

\* sep.join(parts)
RECURSIVE Join(_, _)
Join(parts, sep) ==
    IF parts = <<>> THEN <<>>
    ELSE IF Len(parts) = 1 THEN parts[1]
    ELSE parts[1] \o sep \o Join(Tail(parts), sep)

\* str(n) for a natural number
RECURSIVE ToStr(_)
ToStr(n) ==
    IF n < 10 THEN <<DigitChars[n + 1]>>
    ELSE ToStr(n \div 10) \o <<DigitChars[(n % 10) + 1]>>

\* sum(1 for ch in s if ch.isalnum())
RECURSIVE AlnumCount(_)
AlnumCount(s) ==
    IF s = <<>> THEN 0
    ELSE (IF Head(s) \in AlnumChars THEN 1 ELSE 0) + AlnumCount(Tail(s))

\* truthiness of an Optional[str]: neither None nor ""
Truthy(s) == s # None /\ s # <<>>

\* f"--- Page {n} ---\n"
PageMarker(n) ==
    <<"-", "-", "-", " ", "P", "a", "g", "e", " ">> \o ToStr(n)
        \o <<" ", "-", "-", "-", "\n">>

\* f"--- Page {n} (OCR) ---\n"
OcrPageMarker(n) ==
    <<"-", "-", "-", " ", "P", "a", "g", "e", " ">> \o ToStr(n)
        \o <<" ", "(", "O", "C", "R", ")", " ", "-", "-", "-", "\n">>

\* a backend's return value (text, page_count); exc is TRUE when the call
\* ends by an exception leaving the backend instead of a return
Ret(t, n) == [text |-> t, page_count |-> n, exc |-> FALSE]

-----------------------------------------------------------------------------
(* _format_table *)

RECURSIVE FormatCells(_)
FormatCells(row) ==
    IF row = <<>> THEN <<>>
    ELSE <<IF Truthy(Head(row)) THEN Strip(Head(row)) ELSE <<>>>>
            \o FormatCells(Tail(row))

RECURSIVE FormatRows(_)
FormatRows(table) ==
    IF table = <<>> THEN <<>>
    ELSE (IF Head(table) # <<>>
          THEN <<Join(FormatCells(Head(table)), <<" ", "|", " ">>)>>
          ELSE <<>>)
         \o FormatRows(Tail(table))

_format_table(table) ==
    IF table = <<>> THEN <<>>
    ELSE LET rows == FormatRows(table)
         IN  IF rows # <<>> THEN Join(rows, NL) ELSE <<>>

-----------------------------------------------------------------------------
(* extract_with_pdfplumber *)

RECURSIVE TableParts(_)
TableParts(tables) ==
    IF tables = <<>> THEN <<>>
    ELSE LET table_text == _format_table(Head(tables))
         IN  (IF table_text # <<>> THEN <<table_text>> ELSE <<>>)
             \o TableParts(Tail(tables))

RECURSIVE PlumberParts(_, _)
PlumberParts(pages, i) ==
    IF i > Len(pages) THEN <<>>
    ELSE (IF Truthy(pages[i].page_text)
          THEN <<PageMarker(i) \o pages[i].page_text>>
          ELSE <<>>)
         \o (IF pages[i].tables # <<>> THEN TableParts(pages[i].tables) ELSE <<>>)
         \o PlumberParts(pages, i + 1)

\* doc.raises: pdfplumber.open or a page method raises on this file
extract_with_pdfplumber(doc) ==
    IF doc.raises THEN Ret(None, 0)
    ELSE LET res == Strip(Join(PlumberParts(doc.pages, 1), NL2))
         IN  Ret(IF res # <<>> THEN res ELSE None, Len(doc.pages))

-----------------------------------------------------------------------------
(* extract_with_pymupdf *)

RECURSIVE FitzParts(_, _)
FitzParts(pages, i) ==
    IF i > Len(pages) THEN <<>>
    ELSE (IF Strip(pages[i]) # <<>>
          THEN <<PageMarker(i) \o Strip(pages[i])>>
          ELSE <<>>)
         \o FitzParts(pages, i + 1)

\* variant: the try/except around the PyMuPDF calls is missing
extract_with_pymupdf_noexcept(has_fitz, doc) ==
    IF ~has_fitz THEN Ret(None, 0)
    ELSE IF doc.raises THEN [text |-> None, page_count |-> 0, exc |-> TRUE]
    ELSE LET res == Strip(Join(FitzParts(doc.pages, 1), NL2))
         IN  Ret(IF res # <<>> THEN res ELSE None, Len(doc.pages))

\* doc.raises: fitz.open or page.get_text raises on this file
extract_with_pymupdf(has_fitz, doc) ==
    IF ~has_fitz THEN Ret(None, 0)
    ELSE IF doc.raises THEN Ret(None, 0)
    ELSE LET res == Strip(Join(FitzParts(doc.pages, 1), NL2))
         IN  Ret(IF res # <<>> THEN res ELSE None, Len(doc.pages))

-----------------------------------------------------------------------------
(* extract_with_ocr *)

\* variant: the marker carries the 0-based loop index
RECURSIVE OcrParts_index0(_, _)
OcrParts_index0(pages, i) ==
    IF i > Len(pages) THEN <<>>
    ELSE (IF pages[i].raises THEN <<>>
          ELSE IF AlnumCount(pages[i].page_text) < 10 THEN <<>>
          ELSE <<OcrPageMarker(i - 1) \o Strip(pages[i].page_text)>>)
         \o OcrParts_index0(pages, i + 1)

\* variant: no quality gate, every recognized page is appended
RECURSIVE OcrParts_nogate(_, _)
OcrParts_nogate(pages, i) ==
    IF i > Len(pages) THEN <<>>
    ELSE (IF pages[i].raises THEN <<>>
          ELSE <<OcrPageMarker(i) \o Strip(pages[i].page_text)>>)
         \o OcrParts_nogate(pages, i + 1)

\* the per-page loop: pages[i].raises when preprocessing or recognition of
\* page i raises, pages[i].page_text the recognized text otherwise
RECURSIVE OcrParts(_, _)
OcrParts(pages, i) ==
    IF i > Len(pages) THEN <<>>
    ELSE (IF pages[i].raises THEN <<>>
          ELSE IF AlnumCount(pages[i].page_text) < 10 THEN <<>>
          ELSE <<OcrPageMarker(i) \o Strip(pages[i].page_text)>>)
         \o OcrParts(pages, i + 1)

\* scan.raises: rendering the pages to images raises;
\* scan.pages: one entry per rendered page image
extract_with_ocr(has_ocr, scan, preprocess) ==
    IF ~has_ocr THEN Ret(None, 0)
    ELSE IF scan.raises THEN Ret(None, 0)
    ELSE IF Len(scan.pages) = 0 THEN Ret(None, 0)
    ELSE LET res == Strip(Join(OcrParts(scan.pages, 1), NL2))
         IN  Ret(IF res # <<>> THEN res ELSE None, Len(scan.pages))

-----------------------------------------------------------------------------
(* What the libraries can hand to the backends for a file of n pages *)

LongA == Rep("a", 36)
EdgeA == Rep("a", 35)

\* a table as page.extract_tables() gives it: rows of cells, a cell a string or None
Table1 == << <<Rep("A", 1), None>>, <<>>, <<<<" ", "b", " ">>, Rep("c", 1)>> >>

PlumberPages ==
    {[page_text |-> None, tables |-> <<>>],
     [page_text |-> None, tables |-> <<Table1>>],
     [page_text |-> EdgeA, tables |-> <<>>],
     [page_text |-> LongA, tables |-> <<>>],
     [page_text |-> LongA, tables |-> <<Table1>>]}

PlumberDocs(n) ==
    {[raises |-> TRUE, pages |-> <<>>]}
        \cup {[raises |-> FALSE, pages |-> p] : p \in [1..n -> PlumberPages]}

FitzPageTexts ==
    {NL, <<" ">> \o Rep("b", 35) \o NL, Rep("b", 36)}

\* nothing is read when the backend does not reach the library
NotRead == [raises |-> FALSE, pages |-> <<>>]

FitzDocs(has_fitz, n) ==
    IF ~has_fitz THEN {NotRead}
    ELSE {[raises |-> TRUE, pages |-> <<>>]}
            \cup {[raises |-> FALSE, pages |-> p] : p \in [1..n -> FitzPageTexts]}

OcrPages ==
    {[raises |-> TRUE, page_text |-> <<>>]}
        \cup {[raises |-> FALSE, page_text |-> t] :
                t \in {<<" ">>,
                       Rep("a", 9) \o <<"-", "-", "-">>,
                       Rep("a", 10),
                       <<" ">> \o Rep("Z", 10) \o NL}}

\* rendering is a function of the file: it fails or yields one image per page
OcrScans(has_ocr, file) ==
    IF ~has_ocr THEN {NotRead}
    ELSE IF file.render_raises THEN {[raises |-> TRUE, pages |-> <<>>]}
    ELSE {[raises |-> FALSE, pages |-> p] : p \in [1..file.n -> OcrPages]}

-----------------------------------------------------------------------------
(* extract_text_from_pdf *)

\* variant: the gate is >= 50
TextGate_ge50(t) == Truthy(t) /\ Len(Strip(t)) >= 50

\* variant: the gate only tests that some text came back
TextGate_nolen(t) == Truthy(t)

\* text and len(text.strip()) > 50
TextGate(t) == Truthy(t) /\ Len(Strip(t)) > 50

\* text and len(text.strip()) > 20
OcrGate(t) == Truthy(t) /\ Len(Strip(t)) > 20

\* variant: page_count = pc without the test
UpdatePageCount_always(old, reported) == reported

\* variant: the count of a later backend is dropped
UpdatePageCount_keep(old, reported) == old

\* if pc > 0: page_count = pc
UpdatePageCount(old, reported) == IF reported > 0 THEN reported ELSE old

Success(t, method, n) ==
    [text |-> t, method |-> method, success |-> TRUE, page_count |-> n]

Called(k, doc, r) == Append(calls, [backend |-> k, raised |-> doc.raises, ret |-> r])

Strategy1 ==
    /\ pc = "strategy1"
    /\ \E doc \in PlumberDocs(pdf.n) :
         LET r == extract_with_pdfplumber(doc) IN
         /\ calls' = Called(1, doc, r)
         /\ given' = doc
         /\ IF r.exc
            THEN pc' = "raised" /\ UNCHANGED <<text, page_count, result>>
            ELSE /\ text' = r.text
                 /\ page_count' = r.page_count
                 /\ IF TextGate(r.text)
                    THEN /\ result' = Success(r.text, "pdfplumber", r.page_count)
                         /\ pc' = "done"
                    ELSE /\ pc' = "strategy2"
                         /\ UNCHANGED result
    /\ UNCHANGED <<HAS_FITZ, HAS_OCR, pdf>>
    /\ UNCHANGED chunkVars
    /\ UNCHANGED <<translateVars, appVars>>

Strategy2 ==
    /\ pc = "strategy2"
    /\ \E doc \in FitzDocs(HAS_FITZ, pdf.n) :
         LET r == extract_with_pymupdf(HAS_FITZ, doc) IN
         /\ calls' = Called(2, doc, r)
         /\ given' = doc
         /\ IF r.exc
            THEN pc' = "raised" /\ UNCHANGED <<text, page_count, result>>
            ELSE /\ text' = r.text
                 /\ page_count' = UpdatePageCount(page_count, r.page_count)
                 /\ IF TextGate(r.text)
                    THEN /\ result' = Success(r.text, "PyMuPDF", page_count')
                         /\ pc' = "done"
                    ELSE /\ pc' = "strategy3"
                         /\ UNCHANGED result
    /\ UNCHANGED <<HAS_FITZ, HAS_OCR, pdf>>
    /\ UNCHANGED chunkVars
    /\ UNCHANGED <<translateVars, appVars>>

Strategy3 ==
    /\ pc = "strategy3"
    /\ \E scan \in OcrScans(HAS_OCR, pdf) :
         LET r == extract_with_ocr(HAS_OCR, scan, TRUE) IN
         /\ calls' = Called(3, scan, r)
         /\ given' = scan
         /\ IF r.exc
            THEN pc' = "raised" /\ UNCHANGED <<text, page_count, result>>
            ELSE /\ text' = r.text
                 /\ page_count' = UpdatePageCount(page_count, r.page_count)
                 /\ IF OcrGate(r.text)
                    THEN /\ result' = Success(r.text, "OCR (pytesseract)", page_count')
                         /\ pc' = "done"
                    ELSE /\ pc' = "strategy4"
                         /\ UNCHANGED result
    /\ UNCHANGED <<HAS_FITZ, HAS_OCR, pdf>>
    /\ UNCHANGED chunkVars
    /\ UNCHANGED <<translateVars, appVars>>

Strategy4 ==
    /\ pc = "strategy4"
    /\ \E scan \in OcrScans(HAS_OCR, pdf) :
         LET r == extract_with_ocr(HAS_OCR, scan, FALSE) IN
         /\ calls' = Called(4, scan, r)
         /\ given' = scan
         /\ IF r.exc
            THEN pc' = "raised" /\ UNCHANGED <<text, page_count, result>>
            ELSE /\ text' = r.text
                 /\ page_count' = UpdatePageCount(page_count, r.page_count)
                 /\ IF OcrGate(r.text)
                    THEN /\ result' = Success(r.text,
                                "OCR (pytesseract, no preprocessing)", page_count')
                         /\ pc' = "done"
                    ELSE /\ pc' = "all_failed"
                         /\ UNCHANGED result
    /\ UNCHANGED <<HAS_FITZ, HAS_OCR, pdf>>
    /\ UNCHANGED chunkVars
    /\ UNCHANGED <<translateVars, appVars>>

\* variant: the failure result carries the last backend's text
AllFailed_lasttext ==
    /\ pc = "all_failed"
    /\ result' = [text |-> text, method |-> "none", success |-> FALSE,
                  page_count |-> page_count]
    /\ pc' = "done"
    /\ UNCHANGED <<HAS_FITZ, HAS_OCR, pdf, text, page_count, calls, given>>
    /\ UNCHANGED chunkVars
    /\ UNCHANGED <<translateVars, appVars>>

\* "All methods failed"
AllFailed ==
    /\ pc = "all_failed"
    /\ result' = [text |-> <<>>, method |-> "none", success |-> FALSE,
                  page_count |-> page_count]
    /\ pc' = "done"
    /\ UNCHANGED <<HAS_FITZ, HAS_OCR, pdf, text, page_count, calls, given>>
    /\ UNCHANGED chunkVars
    /\ UNCHANGED <<translateVars, appVars>>

ChunkIdle ==
    /\ in_text = <<>>
    /\ in_max = 0
    /\ chunks = NoChunks
    /\ cstage = "idle"
    /\ rechunks = NoChunks

TranslateIdle ==
    /\ mode = "idle"
    /\ t_text = <<>>
    /\ progress_callback = "none"
    /\ t_pc = "idle"
    /\ fallback = FALSE
    /\ t_chunks = <<>>
    /\ t_i = 0
    /\ translated_parts = <<>>
    /\ raw = [lines |-> <<>>, doc |-> [kind |-> "none"]]
    /\ events = <<>>
    /\ t_result = NoTResult

AppIdle ==
    /\ uploaded_file = NoFile
    /\ api_key = FALSE
    /\ session_state = [extraction_result |-> Missing, last_file |-> "",
                        translation_result |-> Missing, doc_bytes |-> -1]
    /\ shown = Blank

Init ==
    /\ HAS_FITZ \in BOOLEAN
    /\ HAS_OCR \in BOOLEAN
    /\ pdf \in [n : 0..MaxPages, render_raises : BOOLEAN]
    /\ pc = "strategy1"
    /\ text = None
    /\ page_count = 0
    /\ result = NoResult
    /\ calls = <<>>
    /\ given = NotRead
    /\ ChunkIdle
    /\ TranslateIdle
    /\ AppIdle

Next == Strategy1 \/ Strategy2 \/ Strategy3 \/ Strategy4 \/ AllFailed

Spec == Init /\ [][Next]_vars

-----------------------------------------------------------------------------
(* Properties of the extraction cascade *)

MethodOrder ==
    <<"pdfplumber", "PyMuPDF", "OCR (pytesseract)",
      "OCR (pytesseract, no preprocessing)">>

StrippedLen(t) == IF t = None THEN 0 ELSE Len(Strip(t))

\* the minimum-length gate of backend k as the specification states it
GateOf(k) == IF k <= 2 THEN 50 ELSE 20

GateOfMethod(m) ==
    IF m \in {"pdfplumber", "PyMuPDF"} THEN 50
    ELSE IF m = "none" THEN 0 ELSE 20

\* call c returned text that clears its backend's gate
Cleared(c) ==
    /\ c.ret.text # None
    /\ c.ret.text # <<>>
    /\ StrippedLen(c.ret.text) > GateOf(c.backend)

LastCall == calls[Len(calls)]

\* C1: the backends are invoked strictly in the order StructuredText,
\* GeneralText, OCR with preprocessing, OCR without; a backend is invoked only
\* after every earlier one was invoked and failed its gate; the call returns
\* the text of the first backend that clears its gate and invokes none after it.
C1_CascadeOrder ==
    /\ Len(calls) <= 4
    /\ \A i \in 1..Len(calls) : calls[i].backend = i
    /\ \A i \in 1..(Len(calls) - 1) : ~Cleared(calls[i])
    /\ (calls # <<>> /\ Cleared(LastCall)) => pc = "done"
    /\ pc = "done" =>
         \/ /\ result.success
            /\ \E k \in 1..4 :
                 /\ result.method = MethodOrder[k]
                 /\ Len(calls) = k
                 /\ Cleared(calls[k])
                 /\ result.text = calls[k].ret.text
         \/ /\ ~result.success
            /\ result.method = "none"
            /\ Len(calls) = 4
            /\ ~Cleared(calls[4])

\* the call went through all four backends and returned the fourth's text
C1_Witness ==
    /\ pc = "done"
    /\ Len(calls) = 4
    /\ result.method = MethodOrder[4]
    /\ \A i \in 1..3 : ~Cleared(calls[i])
    /\ calls[1].ret.text # None

\* C2: when all four attempts fail their gates, the result is success=false,
\* method=none and text equal to the empty string.
C2_AllFailedResult ==
    (pc = "done" /\ Len(calls) = 4 /\ \A i \in 1..4 : ~Cleared(calls[i]))
        => /\ result.success = FALSE
           /\ result.method = "none"
           /\ result.text = <<>>

\* a file on which every backend returned null: the parsers raised on it
C2_Witness ==
    /\ pc = "done"
    /\ Len(calls) = 4
    /\ \A i \in 1..4 : calls[i].ret.text = None
    /\ calls[1].raised /\ calls[2].raised /\ calls[3].raised
    /\ result.success = FALSE

NonZeroCalls == {i \in 1..Len(calls) : calls[i].ret.page_count # 0}

LastNonZero == CHOOSE i \in NonZeroCalls : \A j \in NonZeroCalls : j <= i

\* C3: page_count of the result is the count reported by the last invoked
\* backend that reported a non-zero count, cleared gate or not; it is 0 only
\* if every invoked backend reported 0.
C3_PageCount ==
    /\ calls # <<>> =>
         page_count = IF NonZeroCalls = {} THEN 0
                      ELSE calls[LastNonZero].ret.page_count
    /\ pc = "done" =>
         result.page_count = IF NonZeroCalls = {} THEN 0
                             ELSE calls[LastNonZero].ret.page_count

\* an early backend counted the pages, every later one reported 0
C3_Witness ==
    /\ pc = "done"
    /\ Len(calls) = 4
    /\ calls[1].ret.page_count > 0
    /\ \A i \in 2..4 : calls[i].ret.page_count = 0
    /\ result.page_count = calls[1].ret.page_count

\* C4: success=true iff the text is non-empty and its stripped length exceeds
\* the gate of the returned method (50 for the text backends, 20 for OCR); a
\* backend's text is the returned one exactly when it clears the gate, so one
\* of exactly 50 characters is passed over and one of 51 is returned.
C4_SuccessIffGate ==
    /\ pc = "done" =>
         (result.success <=>
            /\ result.text # <<>>
            /\ StrippedLen(result.text) > GateOfMethod(result.method))
    /\ pc = "done" =>
         \A i \in 1..Len(calls) :
            Cleared(calls[i]) <=>
                /\ i = Len(calls)
                /\ result.success
                /\ result.text = calls[i].ret.text
                /\ result.method = MethodOrder[i]

\* a text of exactly 50 characters was passed over, one of 51 returned
C4_Witness ==
    /\ pc = "done"
    /\ Len(calls) = 2
    /\ StrippedLen(calls[1].ret.text) = 50
    /\ StrippedLen(calls[2].ret.text) = 51
    /\ result.success
    /\ result.method = "PyMuPDF"

\* the file has a text layer a text backend could extract
HasTextLayer ==
    \E i \in 1..Len(calls) : calls[i].backend <= 2 /\ calls[i].ret.text # None

TextLayerResult ==
    /\ result.method \in {"pdfplumber", "PyMuPDF"}
    /\ result.success
    /\ result.page_count = pdf.n

\* C5 as stated: every PDF with an extractable text layer is returned by a
\* text backend with success=true and the true page count.
C5_AnyTextLayer == (pc = "done" /\ HasTextLayer) => TextLayerResult

\* C5 amended: every PDF from which a text backend extracts more than 50
\* characters is returned by a text backend with success=true and the true
\* page count.
C5_LongTextLayer ==
    (/\ pc = "done"
     /\ \E i \in 1..Len(calls) :
          calls[i].backend <= 2 /\ StrippedLen(calls[i].ret.text) > 50)
        => TextLayerResult

\* the first parser raised on the file, the second extracted a long text
C5_Witness ==
    /\ pc = "done"
    /\ Len(calls) = 2
    /\ calls[1].raised
    /\ StrippedLen(calls[2].ret.text) > 50
    /\ pdf.n = 2
    /\ result.page_count = 2

OcrPrefix == <<"-", "-", "-", " ", "P", "a", "g", "e", " ">>
OcrSuffix == <<" ", "(", "O", "C", "R", ")", " ", "-", "-", "-">>
DigitSet == {DigitChars[i] : i \in 1..10}
DigitVal(c) == CHOOSE d \in 0..9 : DigitChars[d + 1] = c

HasAt(t, p, pat) ==
    /\ p + Len(pat) - 1 <= Len(t)
    /\ SubSeq(t, p, p + Len(pat) - 1) = pat

RECURSIVE ReadNat(_, _, _)
ReadNat(t, p, acc) ==
    IF p <= Len(t) /\ t[p] \in DigitSet
    THEN ReadNat(t, p + 1, acc * 10 + DigitVal(t[p]))
    ELSE [val |-> acc, next |-> p]

\* the page numbers of the '--- Page N (OCR) ---' markers of t, in text order
RECURSIVE MarkersFrom(_, _)
MarkersFrom(t, p) ==
    IF p > Len(t) THEN <<>>
    ELSE IF HasAt(t, p, OcrPrefix)
         THEN LET r == ReadNat(t, p + Len(OcrPrefix), 0)
              IN  IF r.next > p + Len(OcrPrefix) /\ HasAt(t, r.next, OcrSuffix)
                  THEN <<r.val>> \o MarkersFrom(t, r.next + Len(OcrSuffix))
                  ELSE MarkersFrom(t, p + 1)
         ELSE MarkersFrom(t, p + 1)

Markers(t) == IF t = None THEN <<>> ELSE MarkersFrom(t, 1)

\* page i of the scan is recognized with at least 10 alphanumeric characters
PageAccepted(scan, i) ==
    /\ ~scan.pages[i].raises
    /\ Cardinality({j \in 1..Len(scan.pages[i].page_text) :
                      scan.pages[i].page_text[j] \in AlnumChars}) >= 10

AcceptedPages(scan) == {i \in 1..Len(scan.pages) : PageAccepted(scan, i)}

StrictlyIncreasing(q) == \A i \in 1..(Len(q) - 1) : q[i] < q[i + 1]

\* the last call reached the OCR page loop
OcrRan == calls # <<>> /\ LastCall.backend \in {3, 4} /\ HAS_OCR /\ ~given.raises

\* C6: the OCR backend emits exactly one marker per accepted page, numbered by
\* the page's 1-based index, in increasing order; a page with fewer than 10
\* alphanumeric characters or a failed recognition is omitted without
\* aborting the others; page_count is the number of rendered pages; a 3-page
\* scan with every page accepted gives method OCR, success, page_count 3 and
\* the markers 1, 2, 3.
C6_OcrMarkers ==
    /\ OcrRan =>
         LET m == Markers(LastCall.ret.text) IN
         /\ StrictlyIncreasing(m)
         /\ {m[i] : i \in 1..Len(m)} = AcceptedPages(given)
         /\ LastCall.ret.page_count = Len(given.pages)
         /\ (LastCall.ret.text = None) <=> (AcceptedPages(given) = {})
    /\ (/\ OcrRan
        /\ LastCall.backend = 3
        /\ Len(given.pages) = 3
        /\ AcceptedPages(given) = {1, 2, 3})
         => /\ pc = "done"
            /\ result.method = "OCR (pytesseract)"
            /\ result.success
            /\ result.page_count = 3
            /\ Markers(result.text) = <<1, 2, 3>>

\* a 3-page scan whose middle page was omitted
C6_Witness ==
    /\ OcrRan
    /\ Len(given.pages) = 3
    /\ AcceptedPages(given) = {1, 3}
    /\ given.pages[2].raises
    /\ Markers(result.text) = <<1, 3>>
    /\ result.page_count = 3

Unavailable(c) ==
    \/ c.backend = 2 /\ ~HAS_FITZ
    \/ c.backend \in {3, 4} /\ ~HAS_OCR

PositionAfter(k) ==
    <<"strategy2", "strategy3", "strategy4", "all_failed">>[k]

\* C7: extract_text_from_pdf never raises: a backend that raised inside, or
\* whose capability is absent, returns null text; the coordinator goes on to
\* the next strategy and always ends with a result whose success field tells
\* the outcome.
C7_NeverRaises ==
    /\ pc # "raised"
    /\ \A i \in 1..Len(calls) :
         /\ ~calls[i].ret.exc
         /\ (calls[i].raised \/ Unavailable(calls[i])) =>
              /\ calls[i].ret.text = None
              /\ calls[i].ret.page_count = 0
              /\ \/ i < Len(calls)
                 \/ pc = PositionAfter(i)
                 \/ i = 4 /\ pc = "done" /\ ~result.success
    /\ pc = "done" =>
         /\ result.success \in BOOLEAN
         /\ result.success <=> result.method \in
                {MethodOrder[k] : k \in 1..4}
    /\ pc # "done" => ENABLED Next

\* both optional capabilities are absent and the remaining parser raised
C7_Witness ==
    /\ pc = "done"
    /\ ~HAS_FITZ
    /\ ~HAS_OCR
    /\ calls[1].raised
    /\ Len(calls) = 4
    /\ result.success = FALSE

-----------------------------------------------------------------------------
(* _chunk_text *)

\* str.split(sep), acc the piece read so far
RECURSIVE SplitAcc(_, _, _)
SplitAcc(s, sep, acc) ==
    IF s = <<>> THEN <<acc>>
    ELSE IF Len(s) >= Len(sep) /\ SubSeq(s, 1, Len(sep)) = sep
         THEN <<acc>> \o SplitAcc(SubSeq(s, Len(sep) + 1, Len(s)), sep, <<>>)
         ELSE SplitAcc(Tail(s), sep, Append(acc, Head(s)))

Split(s, sep) == SplitAcc(s, sep, <<>>)

\* if current_chunk: chunks.append(current_chunk.strip())
Flush(st) ==
    IF st.cur # <<>> THEN Append(st.chunks, Strip(st.cur)) ELSE st.chunks

\* variant: current_chunk is not restarted after a flush
LineStep_noreset(st, line, max_size) ==
    IF Len(st.cur) + Len(line) + 1 > max_size
    THEN [chunks |-> Flush(st), cur |-> st.cur \o line \o NL]
    ELSE [chunks |-> st.chunks, cur |-> st.cur \o line \o NL]

\* body of `for line in lines`
LineStep(st, line, max_size) ==
    IF Len(st.cur) + Len(line) + 1 > max_size
    THEN [chunks |-> Flush(st), cur |-> line \o NL]
    ELSE [chunks |-> st.chunks, cur |-> st.cur \o line \o NL]

RECURSIVE LineLoop(_, _, _, _)
LineLoop(st, lines, i, max_size) ==
    IF i > Len(lines) THEN st
    ELSE LineLoop(LineStep(st, lines[i], max_size), lines, i + 1, max_size)

\* variant: a paragraph longer than max_size is not split on line breaks
ParaStep_nosplit(st, para, max_size) ==
    IF Len(st.cur) + Len(para) + 2 > max_size
    THEN [chunks |-> Flush(st), cur |-> para \o NL2]
    ELSE [chunks |-> st.chunks, cur |-> st.cur \o para \o NL2]

\* variant: the running chunk is closed already when the sum reaches max_size
ParaStep_ge(st, para, max_size) ==
    IF Len(st.cur) + Len(para) + 2 >= max_size
    THEN IF Len(para) > max_size
         THEN LineLoop([chunks |-> Flush(st), cur |-> <<>>],
                       Split(para, NL), 1, max_size)
         ELSE [chunks |-> Flush(st), cur |-> para \o NL2]
    ELSE [chunks |-> st.chunks, cur |-> st.cur \o para \o NL2]

\* body of `for para in paragraphs`
ParaStep(st, para, max_size) ==
    IF Len(st.cur) + Len(para) + 2 > max_size
    THEN IF Len(para) > max_size
         THEN LineLoop([chunks |-> Flush(st), cur |-> <<>>],
                       Split(para, NL), 1, max_size)
         ELSE [chunks |-> Flush(st), cur |-> para \o NL2]
    ELSE [chunks |-> st.chunks, cur |-> st.cur \o para \o NL2]

RECURSIVE ParaLoop(_, _, _, _)
ParaLoop(st, paragraphs, i, max_size) ==
    IF i > Len(paragraphs) THEN st
    ELSE ParaLoop(ParaStep(st, paragraphs[i], max_size), paragraphs, i + 1, max_size)

\* variant: the fast path strips the text like the other chunks
_chunk_text_faststrip(txt, max_size) ==
    IF Len(txt) <= max_size THEN <<Strip(txt)>>
    ELSE LET st == ParaLoop([chunks |-> <<>>, cur |-> <<>>],
                            Split(txt, NL2), 1, max_size)
         IN  IF Strip(st.cur) # <<>>
             THEN Append(st.chunks, Strip(st.cur))
             ELSE st.chunks

_chunk_text(txt, max_size) ==
    IF Len(txt) <= max_size THEN <<txt>>
    ELSE LET st == ParaLoop([chunks |-> <<>>, cur |-> <<>>],
                            Split(txt, NL2), 1, max_size)
         IN  IF Strip(st.cur) # <<>>
             THEN Append(st.chunks, Strip(st.cur))
             ELSE st.chunks

-----------------------------------------------------------------------------
(* The chunker applied to every text over a small alphabet *)

Alphabet == {"a", " ", "\n"}

Texts == UNION {[1..k -> Alphabet] : k \in 0..MaxLen}

ExtractIdle ==
    /\ HAS_FITZ = FALSE
    /\ HAS_OCR = FALSE
    /\ pdf = [n |-> 0, render_raises |-> FALSE]
    /\ pc = "idle"
    /\ text = None
    /\ page_count = 0
    /\ result = NoResult
    /\ calls = <<>>
    /\ given = NotRead

InitChunk ==
    /\ ExtractIdle
    /\ in_text \in Texts
    /\ in_max \in 1..MaxSize
    /\ chunks = NoChunks
    /\ cstage = "input"
    /\ rechunks = NoChunks
    /\ TranslateIdle
    /\ AppIdle

Chunk ==
    /\ cstage = "input"
    /\ chunks' = _chunk_text(in_text, in_max)
    /\ cstage' = "chunked"
    /\ UNCHANGED <<in_text, in_max, rechunks>>
    /\ UNCHANGED extractVars
    /\ UNCHANGED <<translateVars, appVars>>

NextChunk == Chunk

SpecChunk == InitChunk /\ [][NextChunk]_vars

-----------------------------------------------------------------------------
(* Properties of the chunker *)

\* C8: a text no longer than max_size comes back as exactly one chunk, which
\* is the text itself, unstripped.
C8_FastPath ==
    (cstage = "chunked" /\ Len(in_text) <= in_max) => chunks = <<in_text>>

\* a short text with whitespace at both ends came back unchanged
C8_Witness ==
    /\ cstage = "chunked"
    /\ Len(in_text) <= in_max
    /\ Len(in_text) >= 3
    /\ in_text[1] = " "
    /\ in_text[Len(in_text)] = "\n"
    /\ chunks = <<in_text>>

RECURSIVE NonBlank(_)
NonBlank(lines) ==
    IF lines = <<>> THEN <<>>
    ELSE (IF Strip(Head(lines)) # <<>> THEN <<Head(lines)>> ELSE <<>>)
         \o NonBlank(Tail(lines))

\* the non-blank lines of s, as they stand in s
NonBlankLines(s) == NonBlank(Split(s, NL))

StripEach(lines) == [i \in 1..Len(lines) |-> Strip(lines[i])]

RECURSIVE LinesOfChunks(_, _)
LinesOfChunks(cs, i) ==
    IF i > Len(cs) THEN <<>>
    ELSE StripEach(NonBlankLines(cs[i])) \o LinesOfChunks(cs, i + 1)

RECURSIVE LinesBefore(_, _)
LinesBefore(cs, i) ==
    IF i <= 1 THEN 0
    ELSE Len(NonBlankLines(cs[i - 1])) + LinesBefore(cs, i - 1)

\* the non-blank lines of the text that chunk i carries, when the chunks carry
\* the text's non-blank lines in order
Carried(i) ==
    SubSeq(NonBlankLines(in_text),
           LinesBefore(chunks, i) + 1,
           LinesBefore(chunks, i) + Len(NonBlankLines(chunks[i])))

\* C9: every chunk is at most max_size long unless it is a single line of the
\* text that is itself longer than max_size; the chunks are made of whole
\* lines of the text, and a line longer than max_size shares its chunk with
\* no other line.
C9_ChunkLength ==
    cstage = "chunked" =>
        /\ LinesOfChunks(chunks, 1) = StripEach(NonBlankLines(in_text))
        /\ \A i \in 1..Len(chunks) :
             /\ \/ Len(chunks[i]) <= in_max
                \/ /\ Len(Carried(i)) = 1
                   /\ Len(Carried(i)[1]) > in_max
                   /\ (chunks[i] = Strip(Carried(i)[1]) \/ chunks = <<in_text>>)
             /\ (\E j \in 1..Len(Carried(i)) : Len(Carried(i)[j]) > in_max)
                    => Len(Carried(i)) = 1

\* a line longer than max_size was emitted whole between two other chunks
C9_Witness ==
    /\ cstage = "chunked"
    /\ Len(chunks) = 3
    /\ Len(chunks[2]) > in_max
    /\ Len(chunks[1]) > 0
    /\ Len(chunks[3]) > 0

\* t is the chunks from index i on, in order, with whitespace between them
RECURSIVE MatchesFrom(_, _, _)
MatchesFrom(t, cs, i) ==
    IF i > Len(cs) THEN Strip(t) = <<>>
    ELSE LET c == Strip(cs[i])
             r == LStrip(t)
         IN  /\ Len(c) <= Len(r)
             /\ SubSeq(r, 1, Len(c)) = c
             /\ MatchesFrom(SubSeq(r, Len(c) + 1, Len(r)), cs, i + 1)

\* C10: the chunks, in emission order and with the whitespace at the chunk
\* boundaries removed, concatenate to the text with the same boundary
\* whitespace removed: nothing is lost, duplicated or reordered.
C10_Reassembly == cstage = "chunked" => MatchesFrom(in_text, chunks, 1)

-----------------------------------------------------------------------------
(* Re-chunking: _chunk_text applied to the blank-line join of its own output *)

InitRechunk ==
    /\ ExtractIdle
    /\ in_text \in {t \in Texts : Len(t) <= MaxReLen}
    /\ in_max \in 1..MaxSize
    /\ chunks = NoChunks
    /\ cstage = "input"
    /\ rechunks = NoChunks
    /\ TranslateIdle
    /\ AppIdle

\* _chunk_text("\n\n".join(chunks), max_size)
Rechunk ==
    /\ cstage = "chunked"
    /\ rechunks' = _chunk_text(Join(chunks, NL2), in_max)
    /\ cstage' = "rechunked"
    /\ UNCHANGED <<in_text, in_max, chunks>>
    /\ UNCHANGED extractVars
    /\ UNCHANGED <<translateVars, appVars>>

NextRechunk == Chunk \/ Rechunk

SpecRechunk == InitRechunk /\ [][NextRechunk]_vars

-----------------------------------------------------------------------------
(* The translation controllers: inputs, the completion service, results *)

\* translator.py sets MAX_CHUNK_SIZE = 6000; the texts of the model are a few
\* characters long, and the budget is scaled down with them so that a text of
\* two paragraphs spans two chunks
MAX_CHUNK_SIZE == 6
MaxParas == 3      \* paragraphs of a text handed to a translation call

\* coa_structure.py: the section keys, in the order of COA_SECTIONS
COA_FIELD_KEYS ==
    <<"document_title", "company_info", "product_name", "product_details",
      "batch_info", "storage_conditions", "test_results", "conclusion",
      "signatures", "notes">>

FieldKeySet == {COA_FIELD_KEYS[i] : i \in 1..Len(COA_FIELD_KEYS)}

\* keys a reply can carry besides the section keys
ExtraKeys == {"manufacturer"}

AllKeys == FieldKeySet \cup ExtraKeys

\* the label of a section, one symbol standing for the label's text
COA_FIELD_LABELS == [k \in FieldKeySet |-> <<k>>]

\* JSON values: a key that the dict does not hold, a string, a list of rows,
\* null
Absent == [t |-> "absent", s |-> <<>>, rows |-> <<>>]
Str(s) == [t |-> "str", s |-> s, rows |-> <<>>]
List(rows) == [t |-> "list", s |-> <<>>, rows |-> rows]
Null == [t |-> "null", s |-> <<>>, rows |-> <<>>]

\* a row of a table that is a number instead of a list of cells
IntRow == <<<<"<int>">>>>

\* dicts are functions on AllKeys; the keys of a dict are those not Absent
Keys(d) == {k \in AllKeys : d[k].t # "absent"}
EmptyDict == [k \in AllKeys |-> Absent]

NoError == "<None>"

\* what the exceptions of the model say
NoTextError == "No text provided for translation"
ClientErrors == {"The api_key client option must be set"}
CallbackErrors == {"callback failed"}
ServiceErrors == {"Rate limit reached", "Incorrect API key provided"}
TypeErrorMsg == "TypeError"

Model == "gpt-4o"

\* variant: the result carries a fixed text instead of the exception's
_error_result_fixed(error) ==
    [translated_text |-> <<>>, has_sections |-> TRUE, sections |-> EmptyDict,
     success |-> FALSE, error |-> "Translation failed", model_used |-> Model,
     chunks_translated |-> 0]

\* _error_result(error, model)
_error_result(error) ==
    [translated_text |-> <<>>, has_sections |-> TRUE, sections |-> EmptyDict,
     success |-> FALSE, error |-> error, model_used |-> Model,
     chunks_translated |-> 0]

\* the prompts, one symbol standing for each fixed text
PLAIN_SYSTEM_PROMPT == "PLAIN_SYSTEM_PROMPT"
STRUCTURED_SYSTEM_PROMPT == "STRUCTURED_SYSTEM_PROMPT"
PlainInstruction == <<"Translate the following ... nothing else.\n\n">>
StructuredInstruction == <<"Below is the full extracted text ... valid JSON.\n\n">>

\* user_message of _translate_plain
PlainUserMessage(chunk) == PlainInstruction \o chunk

\* variant: the callback gets the loop index i instead of i + 1
Progress_index0(cur, total) ==
    [kind |-> "progress", cur |-> cur - 1, total |-> total, system |-> "",
     user |-> <<>>, content |-> <<>>, lines |-> <<>>, raised |-> FALSE, error |-> ""]

\* variant: the callback gets its two arguments in the other order
Progress_swapped(cur, total) ==
    [kind |-> "progress", cur |-> total, total |-> cur, system |-> "",
     user |-> <<>>, content |-> <<>>, lines |-> <<>>, raised |-> FALSE, error |-> ""]

\* entries of the event log
Progress(cur, total) ==
    [kind |-> "progress", cur |-> cur, total |-> total, system |-> "",
     user |-> <<>>, content |-> <<>>, lines |-> <<>>, raised |-> FALSE, error |-> ""]
Request(system, user) ==
    [kind |-> "request", cur |-> 0, total |-> 0, system |-> system,
     user |-> user, content |-> <<>>, lines |-> <<>>, raised |-> FALSE, error |-> ""]
Response(content, lines) ==
    [kind |-> "response", cur |-> 0, total |-> 0, system |-> "",
     user |-> <<>>, content |-> content, lines |-> lines, raised |-> FALSE, error |-> ""]
Raised(error) ==
    [kind |-> "response", cur |-> 0, total |-> 0, system |-> "",
     user |-> <<>>, content |-> <<>>, lines |-> <<>>, raised |-> TRUE, error |-> error]

\* paragraph k of an input text
Para(k) == <<"a", "a", DigitChars[k + 1]>>

\* n paragraphs separated by blank lines
ParasText(n) == Join([k \in 1..n |-> Para(k)], NL2)

\* the texts handed to a translation call: empty, whitespace only, shorter
\* than the budget, of up to MaxParas paragraphs, and two paragraphs with
\* three blank lines between them
TranslateTexts ==
    {<<>>, <<" ", "\n">>, <<" ", "a">>, Para(1) \o NL2 \o NL2 \o Para(2)}
        \cup {ParasText(n) : n \in 1..MaxParas}

\* response.choices[0].message.content of a plain request
PlainContents == {None, <<" ">>, <<"A">>, <<" ", "B", "\n">>}

-----------------------------------------------------------------------------
(* _translate_plain *)

\* variant: the text is tested without stripping it
IsEmptyInput_nostrip(txt) == txt = <<>>

\* not text.strip()
IsEmptyInput(txt) == Strip(txt) = <<>>

\* the success dict of _translate_plain; it has no 'sections' key
PlainSuccess(parts, n) ==
    [translated_text |-> Join(parts, NL2), has_sections |-> FALSE,
     sections |-> EmptyDict, success |-> TRUE, error |-> NoError,
     model_used |-> Model, chunks_translated |-> n]

\* variant: the handler builds a dict that holds the notes only
WithNotes_notesonly(plain_result) ==
    IF plain_result.success
    THEN [plain_result EXCEPT
            !.has_sections = TRUE,
            !.sections = [k \in AllKeys |->
                            IF k = "notes" THEN Str(plain_result.translated_text)
                            ELSE Absent]]
    ELSE plain_result

\* the JSONDecodeError handler of _translate_structured, applied to the dict
\* that _translate_plain returned
WithNotes(plain_result) ==
    IF plain_result.success
    THEN [plain_result EXCEPT
            !.has_sections = TRUE,
            !.sections = [k \in AllKeys |->
                            IF k = "notes" THEN Str(plain_result.translated_text)
                            ELSE IF k \in FieldKeySet THEN Str(<<>>)
                            ELSE Absent]]
    ELSE plain_result

\* what the call returns when _translate_plain returns plain_result
PlainReturn(plain_result) ==
    IF fallback THEN WithNotes(plain_result) ELSE plain_result

\* variant: _translate_plain has no except clause, the exception leaves it
PlainExcept_reraise(e) ==
    /\ t_pc' = "raised"
    /\ UNCHANGED t_result

\* except Exception as e: return _error_result(str(e), model)
PlainExcept(e) ==
    /\ t_result' = PlainReturn(_error_result(e))
    /\ t_pc' = "done"

\* the empty-input check, OpenAI(api_key=...) and _chunk_text(text)
PlainStart ==
    /\ t_pc = "p_start"
    /\ IF IsEmptyInput(t_text)
       THEN /\ t_result' = PlainReturn(_error_result(NoTextError))
            /\ t_pc' = "done"
            /\ UNCHANGED <<t_chunks, t_i, translated_parts>>
       ELSE \/ \E e \in ClientErrors :
                 /\ PlainExcept(e)
                 /\ UNCHANGED <<t_chunks, t_i, translated_parts>>
            \/ /\ t_chunks' = _chunk_text(t_text, MAX_CHUNK_SIZE)
               /\ translated_parts' = <<>>
               /\ t_i' = 1
               /\ t_pc' = "p_loop"
               /\ UNCHANGED t_result
    /\ UNCHANGED <<mode, t_text, progress_callback, fallback, raw, events>>
    /\ UNCHANGED <<extractVars, chunkVars, appVars>>

\* top of the loop body: progress_callback(i + 1, len(chunks)); after the
\* last chunk, the join and the return
PlainProgress ==
    /\ t_pc = "p_loop"
    /\ IF t_i > Len(t_chunks)
       THEN /\ t_result' = PlainReturn(PlainSuccess(translated_parts, Len(t_chunks)))
            /\ t_pc' = "done"
            /\ UNCHANGED events
       ELSE IF progress_callback = "none"
       THEN /\ t_pc' = "p_send"
            /\ UNCHANGED <<events, t_result>>
       ELSE \/ /\ events' = Append(events, Progress(t_i, Len(t_chunks)))
               /\ t_pc' = "p_send"
               /\ UNCHANGED t_result
            \/ \E e \in CallbackErrors :
                 /\ PlainExcept(e)
                 /\ UNCHANGED events
    /\ UNCHANGED <<mode, t_text, progress_callback, fallback, t_chunks, t_i,
                   translated_parts, raw>>
    /\ UNCHANGED <<extractVars, chunkVars, appVars>>

\* variant: the parts translated so far are sent along with chunk i
PlainRequest_carry ==
    /\ t_pc = "p_send"
    /\ events' = Append(events,
                    Request(PLAIN_SYSTEM_PROMPT,
                            PlainUserMessage(Join(translated_parts, NL2) \o t_chunks[t_i])))
    /\ t_pc' = "p_wait"
    /\ UNCHANGED <<mode, t_text, progress_callback, fallback, t_chunks, t_i,
                   translated_parts, raw, t_result>>
    /\ UNCHANGED <<extractVars, chunkVars, appVars>>

\* client.chat.completions.create(...) for chunk i is sent
PlainRequest ==
    /\ t_pc = "p_send"
    /\ events' = Append(events,
                    Request(PLAIN_SYSTEM_PROMPT, PlainUserMessage(t_chunks[t_i])))
    /\ t_pc' = "p_wait"
    /\ UNCHANGED <<mode, t_text, progress_callback, fallback, t_chunks, t_i,
                   translated_parts, raw, t_result>>
    /\ UNCHANGED <<extractVars, chunkVars, appVars>>

\* if translated: translated_parts.append(translated.strip())
Collect(parts, translated) ==
    IF Truthy(translated) THEN Append(parts, Strip(translated)) ELSE parts

\* the request for chunk i returns or raises
PlainResponse ==
    /\ t_pc = "p_wait"
    /\ \/ \E translated \in PlainContents :
            /\ events' = Append(events, Response(translated, <<>>))
            /\ translated_parts' = Collect(translated_parts, translated)
            /\ t_i' = t_i + 1
            /\ t_pc' = "p_loop"
            /\ UNCHANGED t_result
       \/ \E e \in ServiceErrors :
            /\ events' = Append(events, Raised(e))
            /\ PlainExcept(e)
            /\ UNCHANGED <<translated_parts, t_i>>
    /\ UNCHANGED <<mode, t_text, progress_callback, fallback, t_chunks, raw>>
    /\ UNCHANGED <<extractVars, chunkVars, appVars>>

-----------------------------------------------------------------------------
(* _translate_structured *)

\* the reply to the structured request: its lines after classification
\* ("fence": a line starting with ```, "json": the text of one JSON document,
\* "prose": any other text, "blank": whitespace only) and the value that
\* json.loads gives for the "json" line
Row1 == <<<<"H">>, <<"h">>>>
Row2 == <<<<"1">>, <<"2">>>>

DocFull ==
    [k \in AllKeys |->
        IF k = "test_results" THEN List(<<Row1, Row2>>)
        ELSE IF k \in FieldKeySet THEN Str(<<"T">>)
        ELSE Absent]

DocPartial ==
    [k \in AllKeys |->
        IF k = "product_name" THEN Str(<<"P">>)
        ELSE IF k = "test_results" THEN List(<<>>)
        ELSE IF k = "conclusion" THEN Null
        ELSE IF k = "notes" THEN Str(<<>>)
        ELSE Absent]

DocExtra == [DocFull EXCEPT !["manufacturer"] = Str(<<"M">>)]

DocBadTable == [DocPartial EXCEPT !["test_results"] = List(<<Row1, IntRow>>)]

Object(d) == [kind |-> "object", val |-> d]
Array == [kind |-> "array", val |-> EmptyDict]

Reply(lines, doc) == [lines |-> lines, doc |-> doc]
NoReply == Reply(<<>>, Array)

StructContents ==
    {Reply(<<"json">>, Object(d)) :
        d \in {DocFull, DocPartial, DocExtra, DocBadTable, EmptyDict}}
    \cup {Reply(<<"json">>, [kind |-> k, val |-> EmptyDict]) :
             k \in {"array", "string", "number", "null"}}
    \cup {Reply(<<"blank", "fence", "json", "fence", "blank">>, Object(DocFull)),
          Reply(<<"fence", "json", "fence", "prose">>, Object(DocFull)),
          Reply(<<"prose", "fence", "json", "fence">>, Object(DocFull)),
          Reply(<<"prose">>, Array),
          Reply(<<>>, Array)}

RECURSIVE LStripLines(_)
LStripLines(ls) ==
    IF ls # <<>> /\ Head(ls) = "blank" THEN LStripLines(Tail(ls)) ELSE ls

RECURSIVE RStripLines(_)
RStripLines(ls) ==
    IF ls # <<>> /\ ls[Len(ls)] = "blank"
    THEN RStripLines(SubSeq(ls, 1, Len(ls) - 1))
    ELSE ls

NotFence(l) == l # "fence"
NotBlank(l) == l # "blank"

\* json_str: raw.strip(), and without its ``` lines when it starts with ```
JsonStr(ls) ==
    LET stripped == RStripLines(LStripLines(ls))
    IN  IF stripped # <<>> /\ Head(stripped) = "fence"
        THEN SelectSeq(stripped, NotFence)
        ELSE stripped

\* json.loads(json_str) returns instead of raising JSONDecodeError
Parses(ls) == SelectSeq(JsonStr(ls), NotBlank) = <<"json">>

\* for key in COA_FIELD_KEYS: if key not in sections: sections[key] = ""
FillKeys(d) ==
    [k \in AllKeys |->
        IF k \in FieldKeySet /\ d[k].t = "absent" THEN Str(<<>>) ELSE d[k]]

\* " | ".join(str(c) for c in row) for row in value
RECURSIVE PipeRows(_)
PipeRows(rows) ==
    IF rows = <<>> THEN <<>>
    ELSE <<Join(Head(rows), <<" ", "|", " ">>)>> \o PipeRows(Tail(rows))

\* f"[{label}]\n"
LabelLine(key) == <<"[">> \o COA_FIELD_LABELS[key] \o <<"]", "\n">>

\* the preview block of one section, or nothing
PreviewPart(key, value) ==
    IF value.t = "list"
    THEN <<LabelLine(key) \o Join(PipeRows(value.rows), NL)>>
    ELSE IF value.t = "str" /\ value.s # <<>>
    THEN <<LabelLine(key) \o value.s>>
    ELSE <<>>

RECURSIVE PreviewParts(_, _)
PreviewParts(sections, i) ==
    IF i > Len(COA_FIELD_KEYS) THEN <<>>
    ELSE PreviewPart(COA_FIELD_KEYS[i], sections[COA_FIELD_KEYS[i]])
         \o PreviewParts(sections, i + 1)

\* the fill or the preview raises TypeError: the document is no object, or a
\* row of a list is no list
RaisesTypeError(doc) ==
    \/ doc.kind # "object"
    \/ \E k \in FieldKeySet :
         /\ doc.val[k].t = "list"
         /\ \E j \in 1..Len(doc.val[k].rows) : doc.val[k].rows[j] = IntRow

StructuredSuccess(sections) ==
    [translated_text |-> Join(PreviewParts(sections, 1), NL2),
     has_sections |-> TRUE, sections |-> sections, success |-> TRUE,
     error |-> NoError, model_used |-> Model, chunks_translated |-> 1]

\* except Exception as e: return _error_result(str(e), model)
StructExcept(e) ==
    /\ t_result' = _error_result(e)
    /\ t_pc' = "done"

\* the empty-input check, OpenAI(api_key=...) and progress_callback(1, 2)
StructStart ==
    /\ t_pc = "s_start"
    /\ IF IsEmptyInput(t_text)
       THEN /\ t_result' = _error_result(NoTextError)
            /\ t_pc' = "done"
            /\ UNCHANGED events
       ELSE \/ \E e \in ClientErrors :
                 /\ StructExcept(e)
                 /\ UNCHANGED events
            \/ /\ progress_callback = "none"
               /\ t_pc' = "s_send"
               /\ UNCHANGED <<events, t_result>>
            \/ /\ progress_callback = "given"
               /\ \/ /\ events' = Append(events, Progress(1, 2))
                     /\ t_pc' = "s_send"
                     /\ UNCHANGED t_result
                  \/ \E e \in CallbackErrors :
                       /\ StructExcept(e)
                       /\ UNCHANGED events
    /\ UNCHANGED <<mode, t_text, progress_callback, fallback, t_chunks, t_i,
                   translated_parts, raw>>
    /\ UNCHANGED <<extractVars, chunkVars, appVars>>

\* variant: the request carries the first chunk of the text
StructuredUserMessage_firstchunk(txt) ==
    StructuredInstruction \o _chunk_text(txt, MAX_CHUNK_SIZE)[1]

\* user_message of _translate_structured
StructuredUserMessage(txt) == StructuredInstruction \o txt

\* client.chat.completions.create(..., max_tokens=4096) is sent
StructRequest ==
    /\ t_pc = "s_send"
    /\ events' = Append(events,
                    Request(STRUCTURED_SYSTEM_PROMPT, StructuredUserMessage(t_text)))
    /\ t_pc' = "s_wait"
    /\ UNCHANGED <<mode, t_text, progress_callback, fallback, t_chunks, t_i,
                   translated_parts, raw, t_result>>
    /\ UNCHANGED <<extractVars, chunkVars, appVars>>

\* the structured request returns or raises
StructResponse ==
    /\ t_pc = "s_wait"
    /\ \/ \E r \in StructContents :
            /\ events' = Append(events, Response(<<>>, r.lines))
            /\ raw' = r
            /\ t_pc' = "s_parse"
            /\ UNCHANGED t_result
       \/ \E e \in ServiceErrors :
            /\ events' = Append(events, Raised(e))
            /\ StructExcept(e)
            /\ UNCHANGED raw
    /\ UNCHANGED <<mode, t_text, progress_callback, fallback, t_chunks, t_i,
                   translated_parts>>
    /\ UNCHANGED <<extractVars, chunkVars, appVars>>

\* what follows progress_callback(2, 2): fence strip, json.loads, fill,
\* preview, return; on JSONDecodeError the call goes on in _translate_plain
Parse ==
    IF ~Parses(raw.lines)
    THEN /\ fallback' = TRUE
         /\ t_pc' = "p_start"
         /\ UNCHANGED t_result
    ELSE /\ IF RaisesTypeError(raw.doc)
            THEN StructExcept(TypeErrorMsg)
            ELSE /\ t_result' = StructuredSuccess(FillKeys(raw.doc.val))
                 /\ t_pc' = "done"
         /\ UNCHANGED fallback

\* progress_callback(2, 2) and the rest of _translate_structured
StructParse ==
    /\ t_pc = "s_parse"
    /\ \/ /\ progress_callback = "none"
          /\ Parse
          /\ UNCHANGED events
       \/ /\ progress_callback = "given"
          /\ \/ /\ events' = Append(events, Progress(2, 2))
                /\ Parse
             \/ \E e \in CallbackErrors :
                  /\ StructExcept(e)
                  /\ UNCHANGED <<events, fallback>>
    /\ UNCHANGED <<mode, t_text, progress_callback, t_chunks, t_i,
                   translated_parts, raw>>
    /\ UNCHANGED <<extractVars, chunkVars, appVars>>

-----------------------------------------------------------------------------
(* A translation call on any of the texts, with or without a callback *)

InitTranslate ==
    /\ ExtractIdle
    /\ ChunkIdle
    /\ mode \in {"plain", "structured"}
    /\ t_text \in TranslateTexts
    /\ progress_callback \in {"none", "given"}
    /\ t_pc = IF mode = "plain" THEN "p_start" ELSE "s_start"
    /\ fallback = FALSE
    /\ t_chunks = <<>>
    /\ t_i = 0
    /\ translated_parts = <<>>
    /\ raw = NoReply
    /\ events = <<>>
    /\ t_result = NoTResult
    /\ AppIdle

NextTranslate ==
    \/ PlainStart \/ PlainProgress \/ PlainRequest \/ PlainResponse
    \/ StructStart \/ StructRequest \/ StructResponse \/ StructParse

SpecTranslate == InitTranslate /\ [][NextTranslate]_vars

-----------------------------------------------------------------------------
(* Properties of the translation controllers *)

Returned == t_pc = "done"
Succeeded == Returned /\ t_result.success

\* C12 as stated: for every successful translate_structured call the key set
\* of sections is exactly COA_FIELD_KEYS, whatever keys the reply's JSON
\* held: keys the reply omitted map to the empty string, and no key outside
\* the schema is present.
C12_SectionKeys ==
    (Succeeded /\ mode = "structured") =>
        /\ t_result.has_sections
        /\ Keys(t_result.sections) = FieldKeySet
        /\ ~fallback =>
              \A k \in FieldKeySet :
                 raw.doc.val[k].t = "absent" => t_result.sections[k] = Str(<<>>)

\* C13 as stated: when the reply is no JSON and the plain fallback succeeds,
\* the result has success=true, sections["notes"] is non-empty and equals the
\* plain translation, and every other key is the empty string.
C13_FallbackNotes ==
    (Succeeded /\ fallback) =>
        /\ t_result.sections["notes"] = Str(t_result.translated_text)
        /\ t_result.sections["notes"].s # <<>>
        /\ \A k \in FieldKeySet \ {"notes"} : t_result.sections[k] = Str(<<>>)

\* C13: when the reply is no JSON and the plain fallback succeeds, the result
\* has success=true, sections holds exactly the section keys, "notes" equals
\* the plain translation (the blank-line join of the collected parts, which
\* is empty when no chunk gave text) and every other key is the empty string.
C13_FallbackNotesEqual ==
    (Returned /\ fallback) =>
        /\ ~Parses(raw.lines)
        /\ t_result.success =>
              /\ t_result.has_sections
              /\ Keys(t_result.sections) = FieldKeySet
              /\ t_result.translated_text = Join(translated_parts, NL2)
              /\ t_result.sections["notes"] = Str(t_result.translated_text)
              /\ \A k \in FieldKeySet \ {"notes"} :
                    t_result.sections[k] = Str(<<>>)

\* a prose reply, then two chunks translated: the notes hold both parts
C13_Witness ==
    /\ Succeeded
    /\ fallback
    /\ raw.lines = <<"prose">>
    /\ Len(t_chunks) = 2
    /\ t_result.sections["notes"] = Str(<<"A", "\n", "\n", "B">>)

\* C14: on empty or whitespace-only input both modes return success=false
\* with a non-empty error and chunks_translated=0, issue no completion
\* request and never invoke the progress callback.
C14_EmptyInput ==
    Strip(t_text) = <<>> =>
        /\ events = <<>>
        /\ t_pc \in {"p_start", "s_start", "done"}
        /\ Returned =>
              /\ t_result.success = FALSE
              /\ t_result.error = NoTextError
              /\ t_result.error # ""
              /\ t_result.chunks_translated = 0

\* a structured call with a callback on a whitespace-only text has returned
C14_Witness ==
    /\ Returned
    /\ mode = "structured"
    /\ progress_callback = "given"
    /\ t_text = <<" ", "\n">>
    /\ t_result = _error_result(NoTextError)
    /\ events = <<>>

\* positions in the event log
ProgressIdx == {j \in 1..Len(events) : events[j].kind = "progress"}
RequestIdx == {j \in 1..Len(events) : events[j].kind = "request"}
PlainRequestIdx == {j \in RequestIdx : events[j].system = PLAIN_SYSTEM_PROMPT}
StructRequestIdx == {j \in RequestIdx : events[j].system = STRUCTURED_SYSTEM_PROMPT}

\* requests sent, and requests that have returned, before position j
RequestsBefore(j) == Cardinality({m \in RequestIdx : m < j})
ReturnedBefore(j) ==
    Cardinality({m \in 1..(j - 1) : events[m].kind = "response" /\ ~events[m].raised})

\* C15 as stated: in plain mode over N chunks the callback is invoked with
\* (i, N) after the request for chunk i has returned, for i = 1..N in
\* increasing order, exactly N times on success.
C15_ProgressAfterRequest ==
    mode = "plain" =>
        /\ \A j \in ProgressIdx :
             /\ events[j].total = Len(t_chunks)
             /\ ReturnedBefore(j) >= events[j].cur
        /\ (Succeeded /\ progress_callback = "given")
               => Cardinality(ProgressIdx) = Len(t_chunks)

\* C15: in plain mode over N chunks the callback is invoked with (i, N)
\* before the request for chunk i is sent, when the requests for the chunks
\* 1..i-1 have returned and no other; i goes from 1 to N in increasing order,
\* and on success the callback was invoked exactly N times, so (N, N) is
\* reported while the last request is still to be made.
C15_ProgressBeforeRequest ==
    mode = "plain" =>
        /\ \A j \in ProgressIdx :
             /\ events[j].total = Len(t_chunks)
             /\ events[j].cur = ReturnedBefore(j) + 1
             /\ events[j].cur = RequestsBefore(j) + 1
             /\ events[j].cur = Cardinality({m \in ProgressIdx : m <= j})
             /\ j < Len(events) => events[j + 1].kind = "request"
        /\ progress_callback = "none" => ProgressIdx = {}
        /\ (Succeeded /\ progress_callback = "given")
               => Cardinality(ProgressIdx) = Len(t_chunks)

\* three chunks translated: (3, 3) was reported before the third request
C15_Witness ==
    /\ Succeeded
    /\ mode = "plain"
    /\ Len(t_chunks) = 3
    /\ Len(events) = 9
    /\ events[1] = Progress(1, 3)
    /\ events[7] = Progress(3, 3)
    /\ events[8].kind = "request"

IsTranslation(e) ==
    /\ e.kind = "response"
    /\ ~e.raised
    /\ e.content # None
    /\ Strip(e.content) # <<>>

\* the chunk translations that hold text, stripped, in the order received
Translations ==
    LET got == SelectSeq(events, IsTranslation)
    IN  [i \in 1..Len(got) |-> Strip(got[i].content)]

\* C16 as stated: on a successful plain translation, translated_text is the
\* non-empty chunk translations joined by a blank line in chunk order, a
\* chunk without translation contributing nothing and no extra separator;
\* chunks_translated is the number of chunks.
C16_JoinedTranslations ==
    (Succeeded /\ mode = "plain") =>
        /\ t_result.translated_text = Join(Translations, NL2)
        /\ t_result.chunks_translated = Len(t_chunks)

\* C17: in plain mode, when the request for chunk k raises, the call returns
\* success=false with the raised message as error, empty translated_text and
\* chunks_translated=0; the translations of the chunks before k are
\* discarded, no request for a later chunk is made and the request is not
\* repeated.
C17_RequestRaises ==
    mode = "plain" =>
        \A j \in 1..Len(events) :
            events[j].raised =>
                /\ j = Len(events)
                /\ Returned
                /\ t_result.success = FALSE
                /\ t_result.error = events[j].error
                /\ t_result.translated_text = <<>>
                /\ t_result.chunks_translated = 0
                /\ Cardinality(RequestIdx) = t_i
                /\ events[j - 1] = Request(PLAIN_SYSTEM_PROMPT,
                                           PlainUserMessage(t_chunks[t_i]))

\* the second of three requests raised after the first chunk was translated
C17_Witness ==
    /\ Returned
    /\ mode = "plain"
    /\ Len(t_chunks) = 3
    /\ t_i = 2
    /\ translated_parts = <<<<"A">>>>
    /\ events[Len(events)] = Raised("Rate limit reached")
    /\ t_result = _error_result("Rate limit reached")

\* C18 as stated: every translate_structured call on a non-empty text issues
\* exactly one completion request, which carries the full text unchunked.
C18_OneRequest ==
    (Returned /\ mode = "structured" /\ ~IsEmptyInput(t_text)) =>
        /\ Cardinality(RequestIdx) = 1
        /\ \A j \in RequestIdx :
             events[j] = Request(STRUCTURED_SYSTEM_PROMPT,
                                 StructuredInstruction \o t_text)

\* C18: a translate_structured call sends at most one structured request,
\* which carries the full text unchunked whatever its length, and exactly one
\* unless building the client or the first callback raised; further requests
\* are sent only when the reply could not be parsed as JSON, and they are the
\* per-chunk requests of the plain fallback.
C18_OneStructuredRequest ==
    mode = "structured" =>
        /\ Cardinality(StructRequestIdx) <= 1
        /\ \A j \in StructRequestIdx :
             /\ events[j] = Request(STRUCTURED_SYSTEM_PROMPT,
                                    StructuredInstruction \o t_text)
             /\ \A m \in RequestIdx : j <= m
        /\ PlainRequestIdx # {} =>
             /\ fallback
             /\ ~Parses(raw.lines)
             /\ Cardinality(PlainRequestIdx) <= Len(t_chunks)
        /\ (Returned /\ ~IsEmptyInput(t_text)) =>
             \/ Cardinality(StructRequestIdx) = 1
             \/ /\ RequestIdx = {}
                /\ t_result.success = FALSE
                /\ t_result.error \in ClientErrors \cup CallbackErrors

\* a text of two chunks went out whole, and after a prose reply chunk by chunk
C18_Witness ==
    /\ Returned
    /\ mode = "structured"
    /\ fallback
    /\ Len(t_text) > MAX_CHUNK_SIZE
    /\ Cardinality(StructRequestIdx) = 1
    /\ Cardinality(PlainRequestIdx) = 2
    /\ t_result.success

\* C19: translate_plain and translate_structured return a result whatever the
\* completion service and the callback do, they do not raise; success=true
\* comes with a null error, success=false with a non-null error, an empty
\* translated_text and chunks_translated=0.
C19_NeverRaises ==
    /\ t_pc # "raised"
    /\ Returned =>
         /\ t_result.success \in BOOLEAN
         /\ t_result.success => t_result.error = NoError
         /\ ~t_result.success =>
              /\ t_result.error # NoError
              /\ t_result.translated_text = <<>>
              /\ t_result.chunks_translated = 0

\* the callback raised inside the plain fallback of a structured call
C19_Witness ==
    /\ Returned
    /\ mode = "structured"
    /\ fallback
    /\ PlainRequestIdx # {}
    /\ ~events[Len(events)].raised
    /\ t_result = _error_result("callback failed")

\* the k-th request of _translate_plain, as a position in the event log
IsKthPlainRequest(j, k) ==
    /\ j \in PlainRequestIdx
    /\ Cardinality({m \in PlainRequestIdx : m <= j}) = k

\* C20: in plain mode the requests are sent one per chunk, in chunk order and
\* one at a time, each after the one before it has returned; request i is
\* made of the shared system prompt and chunk i only, whatever the earlier
\* responses were.
C20_SequentialRequests ==
    mode = "plain" =>
        /\ RequestIdx = PlainRequestIdx
        /\ \A j \in RequestIdx : \A k \in 1..Len(events) :
             IsKthPlainRequest(j, k) =>
                /\ k <= Len(_chunk_text(t_text, MAX_CHUNK_SIZE))
                /\ events[j] = Request(PLAIN_SYSTEM_PROMPT,
                                  PlainInstruction
                                      \o _chunk_text(t_text, MAX_CHUNK_SIZE)[k])
                /\ ReturnedBefore(j) = k - 1
                /\ IF j = Len(events) THEN t_pc = "p_wait"
                   ELSE events[j + 1].kind = "response"
        /\ Succeeded =>
             Cardinality(RequestIdx) = Len(_chunk_text(t_text, MAX_CHUNK_SIZE))

\* three chunks, three requests, with different replies to the first two
C20_Witness ==
    /\ Succeeded
    /\ mode = "plain"
    /\ progress_callback = "none"
    /\ Cardinality(RequestIdx) = 3
    /\ events[2].content = None
    /\ events[4].content = <<" ", "B", "\n">>
    /\ events[5] = Request(PLAIN_SYSTEM_PROMPT, PlainInstruction \o Para(3))

\* event j is the callback invoked with (cur, total)
ProgressAt(j, cur, total) ==
    /\ j \in ProgressIdx
    /\ events[j].cur = cur
    /\ events[j].total = total

\* event j is one of the two steps of the structured request: (1, 2) ahead of
\* every request, or (2, 2) right after the response to the structured request
TwoStep(j) ==
    \/ ProgressAt(j, 1, 2) /\ RequestsBefore(j) = 0
    \/ /\ ProgressAt(j, 2, 2)
       /\ RequestsBefore(j) = 1
       /\ events[j - 1].kind = "response"

\* C21 as stated: during a translate_structured call on a non-empty text the
\* callback is invoked with (1, 2) before the request is issued and with
\* (2, 2) after the response is received, and at no other time in that call.
C21_TwoStepsOnly ==
    mode = "structured" => \A j \in ProgressIdx : TwoStep(j)

\* C21: during a translate_structured call on a non-empty text a supplied
\* callback is invoked with (1, 2) before the structured request is sent and
\* with (2, 2) after its response is received; it is invoked at no other time
\* unless the reply cannot be parsed as JSON, and then the plain fallback
\* invokes it with (i, N) before the request for each chunk i of N.
C21_TwoStepsThenFallback ==
    mode = "structured" =>
        /\ progress_callback = "none" => ProgressIdx = {}
        /\ (progress_callback = "given" /\ RequestIdx # {}) =>
             /\ ProgressAt(1, 1, 2)
             /\ StructRequestIdx = {2}
        /\ (progress_callback = "given" /\ (fallback \/ Succeeded)) =>
             /\ events[3].kind = "response"
             /\ ProgressAt(4, 2, 2)
        /\ \A j \in ProgressIdx :
             \/ TwoStep(j)
             \/ /\ fallback
                /\ j > 4
                /\ events[j].total = Len(t_chunks)
                /\ events[j].cur = Cardinality({m \in PlainRequestIdx : m < j}) + 1
                /\ j < Len(events) => (j + 1) \in PlainRequestIdx

\* a prose reply to a text of three chunks: (1, 2), (2, 2), then (1, 3) to
\* (3, 3) from the fallback
C21_Witness ==
    /\ Succeeded
    /\ mode = "structured"
    /\ fallback
    /\ Len(events) = 13
    /\ ProgressAt(1, 1, 2)
    /\ ProgressAt(4, 2, 2)
    /\ ProgressAt(5, 1, 3)
    /\ ProgressAt(11, 3, 3)

\* a value that holds something: a string with characters, a list with rows
NonEmptyValue(v) ==
    \/ v.t = "str" /\ v.s # <<>>
    \/ v.t = "list" /\ v.rows # <<>>

\* the block of section i when its value holds something, else no text
ClaimedBlock(sections, i) ==
    LET key == COA_FIELD_KEYS[i]
        value == sections[key]
    IN  IF ~NonEmptyValue(value) THEN <<>>
        ELSE IF value.t = "list"
        THEN LabelLine(key) \o Join(PipeRows(value.rows), NL)
        ELSE LabelLine(key) \o value.s

\* C22 as stated: the preview of a successful structured translation holds,
\* in Schema order, exactly one "[label]" block for each section whose value
\* is non-empty and no block for a section whose value is empty, a table
\* section whose value is the empty list included; tables are rendered as
\* pipe-delimited rows.
C22_PreviewBlocks ==
    (Succeeded /\ mode = "structured" /\ ~fallback) =>
        t_result.translated_text =
            Join(SelectSeq([i \in 1..Len(COA_FIELD_KEYS) |->
                              ClaimedBlock(t_result.sections, i)],
                           LAMBDA b : b # <<>>),
                 NL2)

\* C23 as stated: a reply that is valid JSON but no object (an array, a
\* string, a number or null) is recovered: the call still ends on a success
\* path with a sections map total over the Schema keys.
C23_NonObjectRecovered ==
    (/\ Returned
     /\ mode = "structured"
     /\ Parses(raw.lines)
     /\ raw.doc.kind # "object"
     /\ t_result.error \notin CallbackErrors)
        => /\ t_result.success
           /\ t_result.has_sections
           /\ FieldKeySet \subseteq Keys(t_result.sections)

-----------------------------------------------------------------------------
(* app.py: the script that Streamlit runs from top to bottom after every
   interaction, and the results it keeps in st.session_state *)

MaxContent == 2    \* distinct file contents; content 0 is a file no backend can read

Files == [name : {"a.pdf", "b.pdf"}, bytes : 0..MaxContent]

\* extract_text_from_pdf(pdf_bytes): a function of the bytes
Extraction(pdf_bytes) == [of |-> pdf_bytes, success |-> pdf_bytes # 0]

\* the session and the page after one run of the script with the given
\* uploader content, sidebar key and button state; ok: the translation succeeds
ScriptRun(file, key, translate_btn, ok) ==
    IF file = NoFile THEN [session_state |-> session_state, shown |-> Blank]
    ELSE
    LET stale == \/ session_state.extraction_result = Missing
                 \/ session_state.last_file # file.name
        s1 == IF stale
              THEN [extraction_result |-> Extraction(file.bytes),
                    last_file |-> file.name,
                    translation_result |-> Missing,
                    doc_bytes |-> -1]
              ELSE session_state
        extraction == s1.extraction_result
        button == extraction.success /\ key
        clicked == button /\ translate_btn
        entered == button /\ (translate_btn \/ s1.translation_result # Missing)
        s2 == IF clicked
              THEN [s1 EXCEPT !.translation_result = [of |-> extraction.of, success |-> ok],
                              !.doc_bytes = -1]
              ELSE s1
        translation == s2.translation_result
        download == entered /\ translation.success
        s3 == IF download /\ (s2.doc_bytes = -1 \/ translate_btn)
              THEN [s2 EXCEPT !.doc_bytes = translation.of]
              ELSE s2
    IN  [session_state |-> s3,
         shown |-> [extraction |-> extraction.of,
                    translation |-> IF entered THEN translation.of ELSE -1,
                    doc |-> IF download THEN s3.doc_bytes ELSE -1,
                    button |-> button]]

InitApp ==
    /\ ExtractIdle
    /\ ChunkIdle
    /\ TranslateIdle
    /\ AppIdle

\* the user puts a file into the uploader, or removes the one that is there
Upload ==
    /\ \E f \in Files \cup {NoFile} :
         /\ f # uploaded_file
         /\ uploaded_file' = f
         /\ LET r == ScriptRun(f, api_key, FALSE, FALSE)
            IN  session_state' = r.session_state /\ shown' = r.shown
    /\ UNCHANGED api_key
    /\ UNCHANGED <<extractVars, chunkVars, translateVars>>

\* the user types or clears the API key in the sidebar
SetApiKey ==
    /\ api_key' = ~api_key
    /\ LET r == ScriptRun(uploaded_file, api_key', FALSE, FALSE)
       IN  session_state' = r.session_state /\ shown' = r.shown
    /\ UNCHANGED uploaded_file
    /\ UNCHANGED <<extractVars, chunkVars, translateVars>>

\* the user presses "Translate to Russian"; the translation succeeds or fails
ClickTranslate ==
    /\ shown.button
    /\ \E ok \in BOOLEAN :
         LET r == ScriptRun(uploaded_file, api_key, TRUE, ok)
         IN  session_state' = r.session_state /\ shown' = r.shown
    /\ UNCHANGED <<uploaded_file, api_key>>
    /\ UNCHANGED <<extractVars, chunkVars, translateVars>>

\* any other interaction: the script runs again with the same inputs
Rerun ==
    /\ LET r == ScriptRun(uploaded_file, api_key, FALSE, FALSE)
       IN  session_state' = r.session_state /\ shown' = r.shown
    /\ UNCHANGED <<uploaded_file, api_key>>
    /\ UNCHANGED <<extractVars, chunkVars, translateVars>>

NextApp == Upload \/ SetApiKey \/ ClickTranslate \/ Rerun

SpecApp == InitApp /\ [][NextApp]_vars

\* C24 as stated: after any sequence of uploads, reruns and translate
\* actions the cached extraction result is the extraction of the bytes of the
\* file now uploaded, and a translation or a document of other content than
\* the file's is never shown again, a change of content under the same file
\* name included.
C24_CacheFollowsContent ==
    uploaded_file # NoFile =>
        /\ session_state.extraction_result = Extraction(uploaded_file.bytes)
        /\ shown.extraction = uploaded_file.bytes
        /\ shown.translation \in {-1, uploaded_file.bytes}
        /\ shown.doc \in {-1, uploaded_file.bytes}

-----------------------------------------------------------------------------
(* Packing of paragraphs, empty chunks *)

\* every paragraph of the text fits in max_size
ParagraphsFit ==
    \A k \in 1..Len(Split(in_text, NL2)) : Len(Split(in_text, NL2)[k]) <= in_max

\* no paragraph of the text is empty or has whitespace at its ends
ParagraphsClean ==
    \A k \in 1..Len(Split(in_text, NL2)) :
        /\ Split(in_text, NL2)[k] # <<>>
        /\ Strip(Split(in_text, NL2)[k]) = Split(in_text, NL2)[k]

C26_NoEmptyChunk ==
    (mode = "plain" /\ ~IsEmptyInput(t_text)) =>
        /\ \A i \in 1..Len(t_chunks) : Strip(t_chunks[i]) # <<>>
        /\ \A j \in PlainRequestIdx : Strip(Tail(events[j].user)) # <<>>
-----------------------------------------------------------------------------
(* The OCR gate of the coordinator against what extract_with_ocr returns *)

\* C27: the OCR attempt without preprocessing is made only when the OCR
\* attempt with preprocessing returned null text: every non-null text an OCR
\* backend returns clears the 20-character gate, since each accepted page
\* carries its marker and at least 10 alphanumeric characters.
C27_OcrGateNeverRejects ==
    /\ \A i \in 1..Len(calls) :
         (calls[i].backend \in {3, 4} /\ calls[i].ret.text # None)
             => OcrGate(calls[i].ret.text)
    /\ Len(calls) >= 4 =>
         /\ calls[4].backend = 4
         /\ calls[3].backend = 3
         /\ calls[3].ret.text = None

\* the preprocessed attempt rendered pages and accepted none of them, the
\* attempt without preprocessing accepted one page of exactly 10 alphanumeric
\* characters and its text cleared the gate
C27_Witness ==
    /\ pc = "done"
    /\ Len(calls) = 4
    /\ ~calls[3].raised
    /\ calls[3].ret.page_count > 0
    /\ calls[3].ret.text = None
    /\ calls[4].ret.text # None
    /\ StrippedLen(calls[4].ret.text) = 31
    /\ result.method = MethodOrder[4]

====
